---- MODULE Spec2Model ----
(***************************************************************************)
(* A model of bot.py: the question-file parser parse_mcqs and the daily    *)
(* task main() (token check, progress cursor, batch window, sends, cursor  *)
(* update), run repeatedly by an external scheduler.                       *)
(*                                                                         *)
(* Text is modelled as a sequence of tokens.  A token is a single          *)
(* character (" ", "a", ")", "7", ...) or an indivisible chunk of text     *)
(* ("Answer:", "txt").  A file read with f.read() and split on '\n' is a   *)
(* sequence of lines, each a sequence of tokens.                           *)
(***************************************************************************)
EXTENDS Integers, Sequences, FiniteSets, TLC

VARIABLES
    BOT_TOKEN,          \* os.environ.get("TELEGRAM_BOT_TOKEN")
    questions_file,     \* lines of QUESTIONS_FILE
    progress_file,      \* PROGRESS_FILE: Missing, or its characters
    pc,                 \* position in main() / parse harness
    all_questions,      \* main: all_questions
    start_index,        \* main: start_index
    end_index,          \* main: end_index
    questions_to_send,  \* main: questions_to_send
    chat_i,             \* 1-based position of the loop over CHAT_IDS
    q_i,                \* 1-based position of the loop over questions_to_send
    polls,              \* every send_poll call made so far, over all runs
    messages,           \* every send_message call made so far, over all runs
    run,                \* number of the current invocation of main()
    initial_progress,   \* the progress-file sample the first run started from
    file_at_start,      \* progress file as it was when the current run began
    cursor_read,        \* cursors read by the runs so far, in run order
    input_blocks,       \* the blocks the question file was laid out from
    failed_first        \* the first send of the current run raised

vars == <<BOT_TOKEN, questions_file, progress_file, pc, all_questions,
          start_index, end_index, questions_to_send, chat_i, q_i, polls,
          messages, run, initial_progress, file_at_start, cursor_read,
          input_blocks, failed_first>>

(***************************************************************************)
(* Bounds of the model.                                                    *)
(***************************************************************************)
MaxBlocks == 2        \* blocks of a question file given to parse_mcqs alone
MaxOptions == 5       \* lines between the first and last line of such a block
MaxFileBlocks == 48   \* blocks of the question file of a main() run
MaxRuns == 4          \* invocations of main() by the scheduler
BadEvery == 7         \* every BadEvery-th block of that file is malformed

(***************************************************************************)
(* Configuration (bot.py lines 11-14).                                     *)
(***************************************************************************)
CHAT_IDS == <<"7695772994", "8070930921">>
QUESTIONS_PER_DAY == 20

Missing == "FileNotFound"
None == "None"
NoMatch == "NoMatch"

Min(a, b) == IF a < b THEN a ELSE b
Max(a, b) == IF a > b THEN a ELSE b

Digits == <<"0", "1", "2", "3", "4", "5", "6", "7", "8", "9">>

IsDigit(c) == \E i \in 1..10 : Digits[i] = c

DigitVal(c) == (CHOOSE i \in 1..10 : Digits[i] = c) - 1

\* str(n) for an int n
RECURSIVE NatStr(_)
NatStr(n) ==
    IF n < 10 THEN <<Digits[n + 1]>>
    ELSE Append(NatStr(n \div 10), Digits[(n % 10) + 1])

Str(n) == IF n < 0 THEN <<"-">> \o NatStr(-n) ELSE NatStr(n)

(***************************************************************************)
(* Character classes and str methods.                                      *)
(***************************************************************************)
IsSpace(t) == t \in {" ", "\t", "\n", "\r"}

\* str.lower() on one token
Lower(t) ==
    CASE t = "A" -> "a" [] t = "B" -> "b" [] t = "C" -> "c" [] t = "D" -> "d"
      [] t = "E" -> "e"
      [] t \in {"Answer:", "ANSWER:", "answer:"} -> "answer:"
      [] t \in {"Answer", "ANSWER", "answer"} -> "answer"
      [] OTHER -> t

RECURSIVE LStrip(_)
LStrip(s) ==
    IF s # <<>> /\ IsSpace(Head(s)) THEN LStrip(Tail(s)) ELSE s

RECURSIVE RStrip(_)
RStrip(s) ==
    IF s # <<>> /\ IsSpace(s[Len(s)]) THEN RStrip(SubSeq(s, 1, Len(s) - 1)) ELSE s

\* str.strip()
Strip(s) == RStrip(LStrip(s))

IsBlank(line) == Strip(line) = <<>>

\* ord(c) for the letters the answer pattern can capture
Ord(c) ==
    CASE c = "a" -> 97 [] c = "b" -> 98 [] c = "c" -> 99 [] c = "d" -> 100

(***************************************************************************)
(* re.split(r'\n\s*\n', content.strip()): the blocks are the maximal runs  *)
(* of non-blank lines; blank content gives the single empty block [''].    *)
(***************************************************************************)
\* the non-blank lines that start a block
BlockStarts(content) ==
    {i \in 1..Len(content) :
        ~IsBlank(content[i]) /\ (i = 1 \/ IsBlank(content[i - 1]))}

\* the last line of the block that starts at line i
BlockEnd(content, i) ==
    CHOOSE j \in i..Len(content) :
        /\ \A k \in i..j : ~IsBlank(content[k])
        /\ j = Len(content) \/ IsBlank(content[j + 1])

SplitBlocks(content) ==
    LET starts == BlockStarts(content)
        nth(m) == CHOOSE i \in starts :
                      Cardinality({h \in starts : h < i}) = m - 1
    IN  IF starts = {} THEN << <<>> >>
        ELSE [m \in 1..Cardinality(starts) |->
                 SubSeq(content, nth(m), BlockEnd(content, nth(m)))]

\* lines = [line.strip() for line in block.strip().split('\n') if line.strip()]
RECURSIVE BlockLines(_)
BlockLines(block) ==
    IF block = <<>> THEN <<>>
    ELSE IF IsBlank(Head(block)) THEN BlockLines(Tail(block))
         ELSE <<Strip(Head(block))>> \o BlockLines(Tail(block))

(***************************************************************************)
(* re.search(r'Answer:\s*([a-d])', answer_line, re.IGNORECASE)             *)
(***************************************************************************)
RECURSIVE SkipSpaces(_, _)
SkipSpaces(line, j) ==
    IF j <= Len(line) /\ IsSpace(line[j]) THEN SkipSpaces(line, j + 1) ELSE j

\* the pattern matched at position i: the captured group, or NoMatch
MatchAt(line, i) ==
    IF Lower(line[i]) # "answer:" THEN NoMatch
    ELSE LET j == SkipSpaces(line, i + 1)
         IN  IF j <= Len(line) /\ Lower(line[j]) \in {"a", "b", "c", "d"}
             THEN line[j] ELSE NoMatch

\* leftmost match from position i on
RECURSIVE SearchFrom(_, _)
SearchFrom(line, i) ==
    IF i > Len(line) THEN NoMatch
    ELSE IF MatchAt(line, i) # NoMatch THEN MatchAt(line, i)
         ELSE SearchFrom(line, i + 1)

SearchAnswer(line) == SearchFrom(line, 1)

\* re.sub(r'^[a-d]\)\s*', '', line)
StripLabel(line) ==
    IF Len(line) >= 2 /\ line[1] \in {"a", "b", "c", "d"} /\ line[2] = ")"
    THEN SubSeq(line, SkipSpaces(line, 3), Len(line))
    ELSE line

OptionTexts(lines) ==
    [k \in 1..(Len(lines) - 2) |-> StripLabel(lines[k + 1])]

Skip == [skipped |-> TRUE]

\* a 1-based index
CorrectIndexOneBased(char) == Ord(char) - Ord("a") + 1

\* correct_option_index = ord(correct_option_char) - ord('a')
CorrectIndex(char) == Ord(char) - Ord("a")

\* the enough-lines test of the loop body
TooFewLines(lines) == Len(lines) < 4

\* only the "at least 2 options" test of the comment at the top of the loop
WrongOptionCountAtLeastTwo(options) == Len(options) < 2

\* the four-options test of the loop body
WrongOptionCount(options) == Len(options) # 4

\* one iteration of the loop over question_blocks: a record, or Skip
ParseBlock(block) ==
    LET lines == BlockLines(block)
    IN  IF lines = <<>> THEN Skip
        ELSE IF TooFewLines(lines) THEN Skip
        ELSE LET match == SearchAnswer(lines[Len(lines)])
                 options == OptionTexts(lines)
             IN  IF match = NoMatch THEN Skip
                 ELSE IF WrongOptionCount(options) THEN Skip
                 ELSE [question |-> lines[1],
                       options |-> options,
                       correct_index |-> CorrectIndex(Lower(match))]

RECURSIVE ParseBlocks(_)
ParseBlocks(blocks) ==
    IF blocks = <<>> THEN <<>>
    ELSE LET r == ParseBlock(Head(blocks))
         IN  (IF r = Skip THEN <<>> ELSE <<r>>) \o ParseBlocks(Tail(blocks))

parse_mcqs(content) == ParseBlocks(SplitBlocks(content))

(***************************************************************************)
(* Question files.  A block is laid out from a prompt line carrying the    *)
(* block's number, some option lines and a last line.                      *)
(***************************************************************************)
Labels == <<"a", "b", "c", "d", "e", "f">>

PromptLine(k) == <<"Q">> \o Str(k)

OptionLine(style, j) ==
    CASE style = 1 -> <<Labels[j], ")", " ", "txt">> \o Str(j)
      [] style = 2 -> <<"txt">> \o Str(j)
      [] style = 3 -> <<"A", ")", " ", "txt">> \o Str(j)
      [] style = 4 -> <<"d", ")", "Answer:", "b">>

LastLines ==
    { <<"Answer:", " ", "c">>,
      <<"answer:", "D">>,
      <<"txt", " ", "ANSWER:", " ", "\t", "B", "txt">>,
      <<"Answer:", " ", "e", " ", "Answer:", "a">>,
      <<"Answer:", " ", "e">>,
      <<"Answer", " ", "a">>,
      <<"Answer:">>,
      <<"d", ")", " ", "txt">> }

MkBlock(k, n, style, last) ==
    <<PromptLine(k)>> \o [j \in 1..n |-> OptionLine(style, j)] \o <<last>>

\* the blocks offered at position k of a file given to parse_mcqs alone
BlockPool(k) ==
    {MkBlock(k, n, 1, <<"Answer:", " ", "c">>) : n \in 0..MaxOptions}
    \cup {MkBlock(k, 4, style, <<"Answer:", " ", "a">>) : style \in 2..4}
    \cup {MkBlock(k, 4, 1, last) : last \in LastLines}
    \cup {<<PromptLine(k)>>, <<<<"Answer:", "b">>>>}

BlockSeqs(n) ==
    {bs \in [1..n -> UNION {BlockPool(k) : k \in 1..n}] :
        \A k \in 1..n : bs[k] \in BlockPool(k)}

Indent(line, pad) == IF pad THEN <<" ">> \o line \o <<"\t">> ELSE line

Separator(sep) ==
    CASE sep = 1 -> << <<>> >>
      [] sep = 2 -> << <<" ">>, <<>>, <<"\t", "\r">> >>

\* the lines of the file holding the given blocks
RECURSIVE Layout(_, _, _)
Layout(blocks, sep, pad) ==
    IF blocks = <<>> THEN IF pad THEN << <<" ">>, <<>> >> ELSE <<>>
    ELSE (IF pad THEN << <<>> >> ELSE <<>>)
         \o [i \in 1..Len(Head(blocks)) |-> Indent(Head(blocks)[i], pad)]
         \o (IF Len(blocks) > 1 THEN Separator(sep) ELSE <<>>)
         \o Layout(Tail(blocks), sep, FALSE)
         \o (IF pad THEN << <<>>, <<" ">> >> ELSE <<>>)

(***************************************************************************)
(* parse_mcqs on its own: Init draws a file, ParseOnly applies the parser. *)
(***************************************************************************)
ParseInit ==
    /\ \E n \in 0..MaxBlocks : \E bs \in BlockSeqs(n) :
       \E sep \in 1..2 : \E pad \in BOOLEAN :
           /\ input_blocks = bs
           /\ questions_file = Layout(bs, sep, pad)
    /\ pc = "parse_only"
    /\ all_questions = <<>>
    /\ BOT_TOKEN = None
    /\ progress_file = Missing
    /\ start_index = 0
    /\ end_index = 0
    /\ questions_to_send = <<>>
    /\ chat_i = 1
    /\ q_i = 1
    /\ polls = <<>>
    /\ messages = <<>>
    /\ run = 1
    /\ initial_progress = Missing
    /\ file_at_start = Missing
    /\ cursor_read = <<>>
    /\ failed_first = FALSE

ParseOnly ==
    /\ pc = "parse_only"
    /\ all_questions' = parse_mcqs(questions_file)
    /\ pc' = "parsed"
    /\ UNCHANGED <<BOT_TOKEN, questions_file, progress_file, start_index,
                   end_index, questions_to_send, chat_i, q_i, polls, messages,
                   run, initial_progress, file_at_start, cursor_read,
                   input_blocks, failed_first>>

ParseNext == ParseOnly

SpecParse == ParseInit /\ [][ParseNext]_vars

(***************************************************************************)
(* int(content): optional sign, then digits, single underscores allowed    *)
(* between digits; anything else raises ValueError.                        *)
(***************************************************************************)
IntBody(t) == IF t # <<>> /\ t[1] \in {"+", "-"} THEN Tail(t) ELSE t

IsIntLiteral(s) ==
    LET body == IntBody(Strip(s))
    IN  /\ body # <<>>
        /\ \A i \in 1..Len(body) : IsDigit(body[i]) \/ body[i] = "_"
        /\ IsDigit(body[1])
        /\ IsDigit(body[Len(body)])
        /\ \A i \in 1..(Len(body) - 1) : ~(body[i] = "_" /\ body[i + 1] = "_")

RECURSIVE DigitsValue(_, _)
DigitsValue(body, acc) ==
    IF body = <<>> THEN acc
    ELSE IF Head(body) = "_" THEN DigitsValue(Tail(body), acc)
         ELSE DigitsValue(Tail(body), 10 * acc + DigitVal(Head(body)))

IntValue(s) ==
    LET t == Strip(s)
    IN  IF t[1] = "-" THEN -DigitsValue(IntBody(t), 0)
        ELSE DigitsValue(IntBody(t), 0)

\* seq[a:b] of Python, for ints a and b
PySlice(seq, a, b) ==
    LET n == Len(seq)
        lo == IF a < 0 THEN Max(a + n, 0) ELSE Min(a, n)
        hi == IF b < 0 THEN Max(b + n, 0) ELSE Min(b, n)
    IN  SubSeq(seq, lo + 1, hi)

(***************************************************************************)
(* main(): the state at the start of the first run.                        *)
(***************************************************************************)
GenBlock(k) ==
    IF k % BadEvery = 0
    THEN MkBlock(k, 3, 1, <<"Answer:", " ", "a">>)
    ELSE MkBlock(k, 4, 1, <<"Answer:", " ", Labels[(k % 4) + 1]>>)

GenBlocks(n) == [k \in 1..n |-> GenBlock(k)]

\* progress files a first run may find, each with what it denotes
ProgressSamples ==
    { [kind |-> "missing", text |-> <<>>, value |-> 0],
      [kind |-> "corrupt", text |-> <<>>, value |-> 0],
      [kind |-> "corrupt", text |-> <<" ", "\n">>, value |-> 0],
      [kind |-> "corrupt", text |-> <<"t", "e", "n">>, value |-> 0],
      [kind |-> "corrupt", text |-> <<"4", ".", "5">>, value |-> 0],
      [kind |-> "corrupt", text |-> <<"-", " ", "5">>, value |-> 0],
      [kind |-> "int", text |-> <<"0">>, value |-> 0],
      [kind |-> "int", text |-> <<" ", "4", "0", "\n">>, value |-> 40],
      [kind |-> "int", text |-> <<"2", "_", "0">>, value |-> 20],
      [kind |-> "int", text |-> <<"+", "7">>, value |-> 7],
      [kind |-> "int", text |-> <<"4", "2">>, value |-> 42],
      [kind |-> "int", text |-> <<"6", "0", "\n">>, value |-> 60],
      [kind |-> "int", text |-> <<"-", "5">>, value |-> -5],
      [kind |-> "int", text |-> <<"-", "3", "0">>, value |-> -30] }

FileOf(sample) == IF sample.kind = "missing" THEN Missing ELSE sample.text

Init ==
    /\ \E n \in 0..MaxFileBlocks :
           /\ input_blocks = GenBlocks(n)
           /\ questions_file = Layout(GenBlocks(n), 1, FALSE)
    /\ BOT_TOKEN \in {None, "", "123:abc"}
    /\ \E sample \in ProgressSamples :
           /\ initial_progress = sample
           /\ progress_file = FileOf(sample)
           /\ file_at_start = FileOf(sample)
    /\ pc = "start"
    /\ all_questions = <<>>
    /\ start_index = 0
    /\ end_index = 0
    /\ questions_to_send = <<>>
    /\ chat_i = 1
    /\ q_i = 1
    /\ polls = <<>>
    /\ messages = <<>>
    /\ run = 1
    /\ cursor_read = <<>>
    /\ failed_first = FALSE

(***************************************************************************)
(* main(), one action per step.                                            *)
(***************************************************************************)
\* BOT_TOKEN is None
TokenMissingOnlyNone(token) == token = None

\* not BOT_TOKEN
TokenMissing(token) == token \in {None, ""}

CheckToken ==
    /\ pc = "start"
    /\ pc' = IF TokenMissing(BOT_TOKEN) THEN "done" ELSE "parse"
    /\ UNCHANGED <<BOT_TOKEN, questions_file, progress_file, all_questions,
                   start_index, end_index, questions_to_send, chat_i, q_i,
                   polls, messages, run, initial_progress, file_at_start,
                   cursor_read, input_blocks, failed_first>>

ParseQuestions ==
    /\ pc = "parse"
    /\ all_questions' = parse_mcqs(questions_file)
    /\ pc' = "read"
    /\ UNCHANGED <<BOT_TOKEN, questions_file, progress_file, start_index,
                   end_index, questions_to_send, chat_i, q_i, polls, messages,
                   run, initial_progress, file_at_start, cursor_read,
                   input_blocks, failed_first>>

\* what the body of the try block raises, or "none"
ReadRaises(file) ==
    IF file = Missing THEN "FileNotFoundError"
    ELSE IF Strip(file) # <<>> /\ ~IsIntLiteral(file) THEN "ValueError"
         ELSE "none"

\* only except FileNotFoundError
CaughtOnlyFileNotFound(exc) == exc = "FileNotFoundError"

\* the except clauses of the try block
Caught(exc) == exc \in {"FileNotFoundError", "ValueError", "IndexError"}

ReadProgress ==
    /\ pc = "read"
    /\ LET exc == ReadRaises(progress_file)
       IN  IF exc = "none"
           THEN /\ start_index' = IF Strip(progress_file) = <<>> THEN 0
                                  ELSE IntValue(progress_file)
                /\ cursor_read' = Append(cursor_read, start_index')
                /\ pc' = "check"
           ELSE IF Caught(exc)
           THEN /\ start_index' = 0
                /\ cursor_read' = Append(cursor_read, 0)
                /\ pc' = "check"
           ELSE /\ pc' = "aborted"
                /\ UNCHANGED <<start_index, cursor_read>>
    /\ UNCHANGED <<BOT_TOKEN, questions_file, progress_file, all_questions,
                   end_index, questions_to_send, chat_i, q_i, polls, messages,
                   run, initial_progress, file_at_start, input_blocks,
                   failed_first>>

\* start_index > total_questions
AllSentStrict(start, total) == start > total

\* start_index >= total_questions
AllSent(start, total) == start >= total

\* min(start_index + QUESTIONS_PER_DAY, total_questions - 1)
BatchEndLastIndex(start, total) == Min(start + QUESTIONS_PER_DAY, total - 1)

\* end_index = min(start_index + QUESTIONS_PER_DAY, total_questions)
BatchEnd(start, total) == Min(start + QUESTIONS_PER_DAY, total)

CheckDone ==
    /\ pc = "check"
    /\ IF AllSent(start_index, Len(all_questions))
       THEN /\ pc' = "complete"
            /\ UNCHANGED <<end_index, questions_to_send>>
       ELSE /\ end_index' = BatchEnd(start_index, Len(all_questions))
            /\ questions_to_send' =
                   PySlice(all_questions, start_index, end_index')
            /\ pc' = "polls"
    /\ chat_i' = 1
    /\ q_i' = 1
    /\ UNCHANGED <<BOT_TOKEN, questions_file, progress_file, all_questions,
                   start_index, polls, messages, run, initial_progress,
                   file_at_start, cursor_read, input_blocks, failed_first>>

CompletionText == "No more questions, we are done! Congratulations!"

\* position of the loop over CHAT_IDS after a send_message attempt
AfterMessage(ok) == chat_i + 1

SendMessage ==
    /\ pc = "complete"
    /\ chat_i <= Len(CHAT_IDS)
    /\ \E ok \in BOOLEAN :
           /\ messages' = Append(messages, [run |-> run,
                                            chat_id |-> CHAT_IDS[chat_i],
                                            text |-> CompletionText])
           /\ failed_first' = IF chat_i = 1 THEN ~ok ELSE failed_first
           /\ chat_i' = AfterMessage(ok)
    /\ pc' = IF chat_i' > Len(CHAT_IDS) THEN "done" ELSE "complete"
    /\ UNCHANGED <<BOT_TOKEN, questions_file, progress_file, all_questions,
                   start_index, end_index, questions_to_send, q_i, polls, run,
                   initial_progress, file_at_start, cursor_read, input_blocks>>

\* no try/except around send_poll's loops: a failure leaves both loops
AfterPollBreakOnFailure(ok) ==
    IF ~ok THEN <<Len(CHAT_IDS) + 1, 1>>
    ELSE IF q_i < Len(questions_to_send) THEN <<chat_i, q_i + 1>>
    ELSE <<chat_i + 1, 1>>

\* position <<chat_i, q_i>> of the two loops after a send_poll attempt
AfterPoll(ok) ==
    IF q_i < Len(questions_to_send) THEN <<chat_i, q_i + 1>>
    ELSE <<chat_i + 1, 1>>

SendPoll ==
    /\ pc = "polls"
    /\ chat_i <= Len(CHAT_IDS)
    /\ q_i <= Len(questions_to_send)
    /\ \E ok \in BOOLEAN :
           /\ polls' = Append(polls,
                  [run |-> run,
                   chat_id |-> CHAT_IDS[chat_i],
                   number |-> start_index + (q_i - 1) + 1,
                   total |-> Len(all_questions),
                   question |-> questions_to_send[q_i].question,
                   correct_option_id |-> questions_to_send[q_i].correct_index])
           /\ failed_first' = IF chat_i = 1 /\ q_i = 1 THEN ~ok ELSE failed_first
           /\ chat_i' = AfterPoll(ok)[1]
           /\ q_i' = AfterPoll(ok)[2]
    /\ UNCHANGED <<BOT_TOKEN, questions_file, progress_file, pc, all_questions,
                   start_index, end_index, questions_to_send, messages, run,
                   initial_progress, file_at_start, cursor_read, input_blocks>>

\* f.write(str(start_index + QUESTIONS_PER_DAY))
WrittenTextFullBatch(e) == Str(start_index + QUESTIONS_PER_DAY)

\* f.write(str(end_index))
WrittenText(e) == Str(e)

WriteProgress ==
    /\ pc = "polls"
    /\ chat_i > Len(CHAT_IDS) \/ questions_to_send = <<>>
    /\ progress_file' = WrittenText(end_index)
    /\ pc' = "done"
    /\ UNCHANGED <<BOT_TOKEN, questions_file, all_questions, start_index,
                   end_index, questions_to_send, chat_i, q_i, polls, messages,
                   run, initial_progress, file_at_start, cursor_read,
                   input_blocks, failed_first>>

\* the scheduler starts the next invocation once the previous one has ended
NextRun ==
    /\ pc = "done"
    /\ run < MaxRuns
    /\ run' = run + 1
    /\ pc' = "start"
    /\ file_at_start' = progress_file
    /\ all_questions' = <<>>
    /\ start_index' = 0
    /\ end_index' = 0
    /\ questions_to_send' = <<>>
    /\ chat_i' = 1
    /\ q_i' = 1
    /\ failed_first' = FALSE
    /\ UNCHANGED <<BOT_TOKEN, questions_file, progress_file, polls, messages,
                   initial_progress, cursor_read, input_blocks>>

Next ==
    \/ CheckToken
    \/ ParseQuestions
    \/ ReadProgress
    \/ CheckDone
    \/ SendMessage
    \/ SendPoll
    \/ WriteProgress
    \/ NextRun

Spec == Init /\ [][Next]_vars

(***************************************************************************)
(* Properties of parse_mcqs, stated over the blocks the file was laid out  *)
(* from.                                                                   *)
(***************************************************************************)
NonBlankCount(block) ==
    Cardinality({i \in 1..Len(block) :
                    \E j \in 1..Len(block[i]) : ~IsSpace(block[i][j])})

\* the letters a-d (either case) that follow an 'Answer:' token on the line
AnswerLetters(line) ==
    {Lower(line[j]) : j \in
        {j \in 1..Len(line) :
            /\ line[j] \in {"a", "b", "c", "d", "A", "B", "C", "D"}
            /\ \E i \in 1..(j - 1) :
                  /\ line[i] \in {"Answer:", "ANSWER:", "answer:"}
                  /\ \A k \in (i + 1)..(j - 1) : IsSpace(line[k])}}

Dropped(block) ==
    \/ NonBlankCount(block) < 4
    \/ AnswerLetters(block[Len(block)]) = {}
    \/ Len(block) - 2 # 4

KeptBlocks == SelectSeq(input_blocks, LAMBDA b : ~Dropped(b))

LetterIndex == [a |-> 0, b |-> 1, c |-> 2, d |-> 3]

\* C7: parse_mcqs drops exactly the blocks with fewer than 4 non-blank
\* lines, with no 'Answer:' + letter a-d on the last line, or with other
\* than 4 lines between the first and the last; the result is, in input
\* order, the records of the remaining blocks, each with exactly 4 options
\* and a correct_index in 0..3.
C7_DropsMalformedBlocks ==
    pc = "parsed" =>
        /\ Len(all_questions) = Len(KeptBlocks)
        /\ \A m \in 1..Len(all_questions) :
              /\ all_questions[m].question = KeptBlocks[m][1]
              /\ Len(all_questions[m].options) = 4
              /\ all_questions[m].correct_index \in 0..3

C7_Witness ==
    /\ pc = "parsed"
    /\ Len(input_blocks) = 2
    /\ Len(input_blocks[1]) = 7
    /\ AnswerLetters(input_blocks[1][7]) # {}
    /\ ~Dropped(input_blocks[2])
    /\ Len(all_questions) = 1
    /\ all_questions[1].question = PromptLine(2)

\* C8: the correct_index of every record is the index a->0, b->1, c->2,
\* d->3 of the letter on the last line of its block, whatever the case of
\* the letter and whatever the option lines hold.
C8_CorrectIndexFromAnswerLetter ==
    pc = "parsed" =>
        \A m \in 1..Len(all_questions) :
            \E k \in 1..Len(input_blocks) :
                LET block == input_blocks[k]
                IN  /\ block[1] = all_questions[m].question
                    /\ \E letter \in AnswerLetters(block[Len(block)]) :
                          /\ AnswerLetters(block[Len(block)]) = {letter}
                          /\ all_questions[m].correct_index = LetterIndex[letter]

C8_Witness ==
    /\ pc = "parsed"
    /\ Len(input_blocks) = 2
    /\ Len(input_blocks[1]) = 6
    /\ Len(input_blocks[2]) = 6
    /\ input_blocks[1][6] = <<"Answer:", " ", "c">>
    /\ input_blocks[1][2] = OptionLine(1, 1)
    /\ input_blocks[2][6] = <<"txt", " ", "ANSWER:", " ", "\t", "B", "txt">>
    /\ Len(all_questions) = 2
    /\ all_questions[1].correct_index = 2
    /\ all_questions[2].correct_index = 1

(***************************************************************************)
(* Properties of main().                                                   *)
(***************************************************************************)
TokenPresent == BOT_TOKEN \notin {None, ""}

\* the run in progress has read its cursor
CursorRead == Len(cursor_read) = run /\ pc \in {"check", "complete", "polls", "done"}

Cursor == cursor_read[run]

Total == Len(all_questions)

PollsOf(r) == SelectSeq(polls, LAMBDA p : p.run = r)

PollsTo(r, chat) == SelectSeq(polls, LAMBDA p : p.run = r /\ p.chat_id = chat)

MessagesOf(r) == SelectSeq(messages, LAMBDA m : m.run = r)

Recipients == {CHAT_IDS[i] : i \in 1..Len(CHAT_IDS)}

FileHolds(n) ==
    /\ progress_file # Missing
    /\ IsIntLiteral(progress_file)
    /\ IntValue(progress_file) = n

\* C1: a run that reads cursor c < total attempts, for every recipient,
\* exactly the questions at indices c .. min(c+20, total)-1 of the parsed
\* sequence, and leaves min(c+20, total) in the progress file.
C1_BatchWindow ==
    (pc = "done" /\ TokenPresent /\ CursorRead /\ Cursor < Total) =>
        LET window_end == Min(Cursor + 20, Total)
        IN  /\ \A chat \in Recipients :
                  LET sent == PollsTo(run, chat)
                  IN  /\ Len(sent) = window_end - Cursor
                      /\ \A j \in 1..Len(sent) :
                            /\ Cursor + j \in 1..Total
                            /\ sent[j].question = all_questions[Cursor + j].question
            /\ FileHolds(window_end)

\* C2: a run whose cursor is >= the number of parsed questions sends no
\* quiz poll, attempts exactly one completion message per recipient whether
\* or not an earlier one failed, and leaves the progress file unchanged.
C2_CompletedRun ==
    (TokenPresent /\ CursorRead /\ Cursor >= Total) =>
        /\ PollsOf(run) = <<>>
        /\ progress_file = file_at_start
        /\ pc # "polls"
        /\ pc = "done" =>
              MessagesOf(run) = [i \in 1..Len(CHAT_IDS) |->
                                    [run |-> run, chat_id |-> CHAT_IDS[i],
                                     text |-> CompletionText]]

C2_Witness ==
    /\ pc = "done"
    /\ TokenPresent
    /\ CursorRead
    /\ Cursor >= Total
    /\ Total > 0
    /\ failed_first
    /\ Len(MessagesOf(run)) = 2
    /\ progress_file = <<"6", "0", "\n">>

\* C3: whichever sends fail, a batch run attempts every (recipient,
\* question) pair of the batch exactly once, recipient by recipient in batch
\* order, and then writes the batch's end index to the progress file.
C3_FailuresDoNotAbort ==
    (pc = "done" /\ TokenPresent /\ CursorRead /\ Cursor < Total) =>
        LET size == Len(questions_to_send)
            sent == PollsOf(run)
        IN  /\ Len(sent) = Len(CHAT_IDS) * size
            /\ \A n \in 1..Len(sent) :
                  /\ sent[n].chat_id = CHAT_IDS[((n - 1) \div size) + 1]
                  /\ sent[n].question =
                         questions_to_send[((n - 1) % size) + 1].question
            /\ FileHolds(Min(Cursor + 20, Total))

C3_Witness ==
    /\ pc = "done"
    /\ TokenPresent
    /\ CursorRead
    /\ Cursor = 40
    /\ Total = 42
    /\ failed_first
    /\ Len(PollsOf(run)) = 4
    /\ FileHolds(42)

\* C4: with the token unset or empty, no send_message and no send_poll is
\* ever made and the progress file stays as it was (missing stays missing).
C4_NoTokenNoEffect ==
    BOT_TOKEN \in {None, ""} =>
        /\ polls = <<>>
        /\ messages = <<>>
        /\ progress_file = FileOf(initial_progress)
        /\ pc \in {"start", "done"}

C4_Witness ==
    /\ BOT_TOKEN = ""
    /\ pc = "done"
    /\ run = 2
    /\ progress_file = Missing
    /\ Len(input_blocks) > 20

\* C5: the cursor of a run is 0 for a missing progress file, 0 for content
\* that is no integer after stripping (empty included), and otherwise the
\* integer the content denotes; the run never aborts on reading it.
C5_CursorFromFile ==
    /\ pc # "aborted"
    /\ (run = 1 /\ CursorRead) =>
          /\ Cursor = IF initial_progress.kind = "int"
                      THEN initial_progress.value ELSE 0
          /\ start_index = Cursor

C5_Witness ==
    /\ run = 1
    /\ pc = "polls"
    /\ initial_progress.text = <<"4", ".", "5">>
    /\ start_index = 0
    /\ Len(polls) = 3

C5_WitnessInt ==
    /\ run = 1
    /\ pc = "polls"
    /\ initial_progress.text = <<" ", "4", "0", "\n">>
    /\ start_index = 40

\* C6: whatever the progress file holds at first, the cursor a run slices
\* with and every value a run writes to the file lie in 0 .. total.
C6_CursorInRange ==
    (TokenPresent /\ CursorRead /\ pc \in {"polls", "done"} /\ Cursor < Total) =>
        /\ 0 <= start_index /\ start_index <= Total
        /\ 0 <= end_index /\ end_index <= Total
        /\ pc = "done" => \E n \in 0..Total : FileHolds(n)

\* the number of well-formed blocks of the generated question file
ValidCount == Len(input_blocks) - (Len(input_blocks) \div BadEvery)

\* the prompt of the j-th well-formed block of the generated question file
NthPrompt(j) == PromptLine(j + ((j - 1) \div (BadEvery - 1)))

FreshStart ==
    /\ TokenPresent
    /\ initial_progress.kind = "missing" \/ initial_progress.text = <<"0">>

\* C9: from a missing progress file or one holding 0, consecutive runs tile
\* the question list: each run's batch begins where the previous one ended,
\* and for every recipient the polls attempted over all runs are questions
\* 0, 1, 2, ... in order, none skipped or repeated, all N once completed.
C9_RunsTileTheQuestions ==
    FreshStart =>
        /\ \A chat \in Recipients :
              LET sent == SelectSeq(polls, LAMBDA p : p.chat_id = chat)
              IN  /\ Len(sent) <= ValidCount
                  /\ \A j \in 1..Len(sent) :
                        /\ sent[j].question = NthPrompt(j)
                        /\ sent[j].number = j
                        /\ sent[j].run = ((j - 1) \div 20) + 1
                  /\ messages # <<>> => Len(sent) = ValidCount
                  /\ (pc = "done" /\ chat = CHAT_IDS[Len(CHAT_IDS)]) =>
                        Len(sent) = Min(20 * run, ValidCount)
        /\ \A r \in 1..Len(cursor_read) :
              cursor_read[r] = Min(20 * (r - 1), ValidCount)

C9_Witness ==
    /\ FreshStart
    /\ ValidCount = 42
    /\ run = 4
    /\ pc = "done"
    /\ Len(polls) = 84
    /\ cursor_read = <<0, 20, 40, 42>>

\* C10: from a missing progress file or one holding 0, every batch run
\* strictly increases the persisted cursor, the r-th run leaves min(20 r, N)
\* in the file, so that it holds N after ceil(N/20) runs, and every later
\* run sends only the completion messages and leaves the cursor at N; for
\* N = 0 the first run already sends only the completion messages and
\* writes nothing.
C10_ReachesCompletionAndStays ==
    (FreshStart /\ pc = "done") =>
        /\ ValidCount > 0 => FileHolds(Min(20 * run, ValidCount))
        /\ ValidCount = 0 => progress_file = FileOf(initial_progress)
        /\ 20 * (run - 1) < ValidCount =>
              /\ MessagesOf(run) = <<>>
              /\ IntValue(progress_file) > cursor_read[run]
        /\ 20 * (run - 1) >= ValidCount =>
              /\ PollsOf(run) = <<>>
              /\ Len(MessagesOf(run)) = Len(CHAT_IDS)
              /\ progress_file = file_at_start

C10_Witness ==
    /\ FreshStart
    /\ initial_progress.kind = "missing"
    /\ ValidCount = 41
    /\ run = 4
    /\ pc = "done"
    /\ FileHolds(41)
    /\ Len(MessagesOf(4)) = 2
    /\ Len(MessagesOf(3)) = 0

====
